---- MODULE Spec2Model ----
(***************************************************************************)
(* Model of deploy/minikube/deploy.py: one run of main() (and a re-run on  *)
(* the same cluster), the rollout wait with its timeout budget, the MySQL  *)
(* initialisation with its table checks, and the worker pools.             *)
(***************************************************************************)
EXTENDS Integers, Sequences, FiniteSets, TLC

\* ---------------------------------------------------------------- bounds
MaxRuns == 2
MaxMissing == 1

\* ------------------------------------------------------ program constants
MinLeft == 30
MysqlTimeout == 600
NacosTimeout == 900
FinalTimeout == 900
MaxPoolWorkers == 6
BuildPoolWorkers == 2

Tools == {"docker", "kubectl", "minikube", "mvn", "node", "npm"}
AlwaysTools == <<"docker", "kubectl", "minikube">>
BuildTools == <<"mvn", "node", "npm">>

base_images == <<"eclipse-temurin:17-jre", "nginx:latest", "redis:7",
                 "mysql:5.7", "nacos/nacos-server:latest">>

imgs == <<"ruoyi-gateway:jre17-1", "ruoyi-auth:jre17-1",
          "ruoyi-modules-system:jre17-1", "ruoyi-modules-gen:jre17-1",
          "ruoyi-modules-job:jre17-1", "ruoyi-modules-file:jre17-1",
          "ruoyi-visual-monitor:jre17-1", "ruoyi-ui:latest">>

deployments == <<"ruoyi-mysql", "ruoyi-redis", "ruoyi-nacos", "ruoyi-gateway",
                 "ruoyi-auth", "ruoyi-system", "ruoyi-gen", "ruoyi-job",
                 "ruoyi-file", "ruoyi-monitor", "ruoyi-nginx">>

\* The tables _ensure_mysql_initialized checks and the schema file each of
\* them comes from.
TableSet == {"config_info", "sys_config", "sys_job"}
SqlFiles == {"ry_config_20250902.sql", "ry_20250523.sql"}
FileOf(t) == IF t = "config_info" THEN "ry_config_20250902.sql" ELSE "ry_20250523.sql"
FileTables(f) == {t \in TableSet : FileOf(t) = f}

\* Cluster objects this program creates (all of them in namespace ruoyi).
NsObj == "ns"
CmMysql == "ruoyi-mysql-init"
CmNacos == "ruoyi-nacos-conf"
Manifest == "all.yaml"
ProvisionObjs == {NsObj, CmMysql, CmNacos}
AllObjs == ProvisionObjs \cup {Manifest}

\* Durations (whole seconds) a rollout status command may take.
Durations == {0, 25, 880}

Namespaces == {"ruoyi", "other"}
NoErr == <<"none", "">>
NoneQ == [t \in TableSet |-> "none"]
NoneF == [f \in SqlFiles |-> "none"]
NoRetries == [t \in TableSet |-> 0]
\* what main needs to have seen before it restarts ruoyi-nacos
Observations == {"mysql_ready", "ry-config", "update"} \cup TableSet

VARIABLES
  run,            \* number of the run of main on this cluster
  skip_build, only_apply, cleanup, namespace,   \* args
  PATH,           \* tools that shutil.which / the OS can find
  TOOL_BIN,       \* keys of the global TOOL_BIN dict
  pc,             \* position of main
  exit_code,      \* -1 while running, 0 on return 0, 1 on an exception
  err,            \* <<kind, argument>> of the exception that ended the run
  steps,          \* steps of main entered in this run
  invokedTools,   \* tools this run started (or tried to start) as a process
  missing,        \* _ensure_base_images: images still to pull
  cluster,        \* objects present in the cluster
  db,             \* tables present in the mysql pod
  rendered, applied,  \* _apply_configmaps: payloads rendered / applied
  q1, q2,         \* _ensure_mysql_initialized: first and second table query
  impRc, retries, \* result of the first import of a file / retry imports per table
  ignoredFail,    \* a check=False command other than an import returned non-zero
  wlist, wtimeout, widx, elapsed, left, wret,   \* _wait_rollout
  fault,          \* the environment made some command or file lookup fail
  prev,           \* outcome of the previous run
  nsTouched,      \* namespaces a cluster command of this run was issued on
  observed,       \* what this run has seen: mysql ready, tables, database, UPDATE
  \* worker pools
  pool,           \* which fan-out: "build", "image_build" or "image_load"
  status,         \* state of each submitted task (future)
  mainPc,         \* position of the thread that owns the pool
  propagated,     \* task whose exception result() raised in the owner, or 0
  firstFail,      \* task that failed first in time, or 0
  snapFailed,     \* failed futures already finished when as_completed began
  pendingFail     \* first future that failed after as_completed began, or 0

mainVars == <<run, skip_build, only_apply, cleanup, namespace, PATH, TOOL_BIN,
              pc, exit_code, err, steps, invokedTools, missing, cluster, db,
              rendered, applied, q1, q2, impRc, retries, ignoredFail,
              wlist, wtimeout, widx, elapsed, left, wret, fault, prev,
              nsTouched, observed>>
poolVars == <<pool, status, mainPc, propagated, firstFail, snapFailed, pendingFail>>
vars == <<mainVars, poolVars>>

argVars == <<skip_build, only_apply, cleanup, namespace>>
envVars == <<run, PATH, prev>>
cmVars == <<rendered, applied>>
sqlVars == <<q1, q2, impRc, retries>>
waitVars == <<wlist, wtimeout, widx, elapsed, left, wret>>

Max(a, b) == IF a >= b THEN a ELSE b
Min(a, b) == IF a <= b THEN a ELSE b

\* ------------------------------------------------------------- helpers

\* _exe(name) is TOOL_BIN.get(name, name): a tool that was not resolved is
\* started by its bare name, which works only if the OS finds it in PATH.
Runnable(name) == name \in TOOL_BIN \/ name \in PATH

\* An exception leaves main: the process ends with a non-zero exit code.
Raise(kind, arg) ==
  /\ exit_code' = 1
  /\ err' = <<kind, arg>>
  /\ pc' = "done"

\* _which_or_raise(label, override): "ok" or the kind of the RuntimeError.
\* ovr is "none" (no --<label>-bin), "exists" or "absent" (the given path).
WhichOrRaise(label, ovr) ==
  IF ovr # "none"
    THEN IF ovr = "exists" THEN "ok" ELSE "Tool path does not exist"
    ELSE IF label \in PATH THEN "ok" ELSE "Missing required tool in PATH"

\* _ensure_tools resolves docker, kubectl, minikube and, when need_build,
\* mvn, node, npm, in this order.
need_build == (~skip_build) /\ (~only_apply)
RequiredTools == IF need_build THEN AlwaysTools \o BuildTools ELSE AlwaysTools

RECURSIVE FirstBad(_, _, _)
FirstBad(req, ovr, i) ==
  IF i > Len(req) THEN 0
  ELSE IF WhichOrRaise(req[i], ovr[req[i]]) # "ok" THEN i
  ELSE FirstBad(req, ovr, i + 1)

Range(s) == {s[i] : i \in 1..Len(s)}

\* ----------------------------------------------------------------- main

\* main, lines 627-628: TOOL_BIN = _ensure_tools(args)
EnsureTools ==
  /\ pc = "ensure_tools"
  /\ \E ovr \in [Tools -> {"none", "exists", "absent"}] :
       LET bad == FirstBad(RequiredTools, ovr, 1) IN
       IF bad # 0
         THEN /\ Raise(WhichOrRaise(RequiredTools[bad], ovr[RequiredTools[bad]]),
                       RequiredTools[bad])
              /\ fault' = TRUE
              /\ UNCHANGED TOOL_BIN
         ELSE /\ TOOL_BIN' = Range(RequiredTools)
              /\ pc' = "base_images"
              /\ UNCHANGED <<exit_code, err, fault>>
  /\ steps' = steps \cup {"ensure_tools"}
  /\ UNCHANGED nsTouched
  /\ UNCHANGED observed
  /\ UNCHANGED <<argVars, envVars, invokedTools, missing, cluster, db, cmVars,
                 sqlVars, ignoredFail, waitVars, poolVars>>

\* _ensure_base_images, lines 113-119: docker image inspect of every image
EnsureBaseImages ==
  /\ pc = "base_images"
  /\ \E absent \in SUBSET Range(base_images) :
       /\ missing' = SelectSeq(base_images, LAMBDA i : i \in absent)
       /\ pc' = IF absent = {} THEN "after_base" ELSE "pull"
  /\ steps' = steps \cup {"base_images"}
  /\ invokedTools' = invokedTools \cup {"docker"}
  /\ UNCHANGED nsTouched
  /\ UNCHANGED observed
  /\ UNCHANGED <<argVars, envVars, TOOL_BIN, exit_code, err, cluster, db,
                 cmVars, sqlVars, ignoredFail, waitVars, fault, poolVars>>

\* _ensure_base_images, lines 122-136: docker pull of the next missing image
PullBaseImage ==
  /\ pc = "pull"
  /\ \E ok \in BOOLEAN :
       IF ok
         THEN /\ missing' = Tail(missing)
              /\ pc' = IF Len(missing) = 1 THEN "after_base" ELSE "pull"
              /\ UNCHANGED <<exit_code, err, fault>>
         ELSE /\ Raise("Failed to pull required base image", Head(missing))
              /\ fault' = TRUE
              /\ UNCHANGED missing
  /\ UNCHANGED nsTouched
  /\ UNCHANGED observed
  /\ UNCHANGED <<argVars, envVars, TOOL_BIN, steps, invokedTools, cluster, db,
                 cmVars, sqlVars, ignoredFail, waitVars, poolVars>>

\* (variant: the delete run with check=True)
CleanupCheckStrict == TRUE
\* _cleanup, line 610: the delete is run with check=False
CleanupCheck == FALSE

\* main, lines 631-633 and _cleanup: kubectl delete ns --ignore-not-found,
\* then return 0
Cleanup ==
  /\ pc = "after_base"
  /\ cleanup
  /\ \E rc \in {0, 1} :
       /\ cluster' = IF rc = 0 /\ namespace = "ruoyi" THEN {} ELSE cluster
       /\ db' = IF rc = 0 /\ namespace = "ruoyi" THEN {} ELSE db
       /\ fault' = (fault \/ rc # 0)
       /\ IF rc # 0 /\ CleanupCheck
            THEN /\ Raise("Command failed", "delete ns")
                 /\ UNCHANGED ignoredFail
            ELSE /\ ignoredFail' = (ignoredFail \/ rc # 0)
                 /\ exit_code' = 0
                 /\ pc' = "done"
                 /\ UNCHANGED err
  /\ steps' = steps \cup {"cleanup"}
  /\ invokedTools' = invokedTools \cup {"kubectl"}
  /\ nsTouched' = nsTouched \cup {namespace}
  /\ UNCHANGED observed
  /\ UNCHANGED <<argVars, envVars, TOOL_BIN, missing, cmVars, sqlVars,
                 waitVars, poolVars>>

\* (variant: the build block guarded by --skip-build)
SkipsBuildBlockOnSkipBuild == skip_build
\* main, line 642: the build block is skipped when --only-apply is given
SkipsBuildBlock == only_apply

\* main, lines 635-642: manifest exists, namespace is ruoyi, only_apply branch
Preflight ==
  /\ pc = "after_base"
  /\ ~cleanup
  /\ \E manifestExists \in BOOLEAN :
       IF ~manifestExists
         THEN /\ Raise("k8s manifest not found", Manifest)
              /\ fault' = TRUE
         ELSE IF namespace # "ruoyi"
           THEN /\ Raise("only supports namespace 'ruoyi'", namespace)
                /\ UNCHANGED fault
           ELSE /\ pc' = IF SkipsBuildBlock THEN "cm_ns_render" ELSE "build_fanout"
                /\ UNCHANGED <<exit_code, err, fault>>
  /\ UNCHANGED nsTouched
  /\ UNCHANGED observed
  /\ UNCHANGED <<argVars, envVars, TOOL_BIN, steps, invokedTools, missing,
                 cluster, db, cmVars, sqlVars, ignoredFail, waitVars, poolVars>>

\* (variant: the objects made by a plain kubectl create)
ProvisionVerbCreate == "create"
\* lines 280-289, 312-320, 335-343: an object is rendered by kubectl create
\* --dry-run=client -o yaml and the payload is handed to kubectl apply -f -
ProvisionVerb == "apply"
\* kubectl apply creates or updates; kubectl create refuses an existing object
ApplyRejects(obj) == ProvisionVerb = "create" /\ obj \in cluster
\* a configmap can only be applied into a namespace that exists
NamespaceMissing(obj) == obj # NsObj /\ NsObj \notin cluster

\* main, lines 644-648: backend and frontend build in a pool of two workers;
\* fut_backend.result() is collected before fut_frontend.result().
\* _build_backend_jars: mvn package.  _build_frontend_dist: package.json must
\* exist, then npm install and npm run build:prod.
BackendResults == {NoErr, <<"Command failed", "mvn package">>}
FrontendResults == {NoErr, <<"ruoyi-ui not found", "package.json">>,
                    <<"Command failed", "npm install">>,
                    <<"Command failed", "npm run build:prod">>}
BackendOutcome(r) == IF Runnable("mvn") THEN r ELSE <<"FileNotFoundError", "mvn">>
FrontendOutcome(r) ==
  IF r = <<"ruoyi-ui not found", "package.json">> \/ Runnable("npm")
    THEN r ELSE <<"FileNotFoundError", "npm">>
CollectBuild(b, f) == IF b # NoErr THEN b ELSE f

BuildFanout ==
  /\ pc = "build_fanout"
  /\ \E rb \in BackendResults, rf \in FrontendResults :
       LET b == BackendOutcome(rb)
           f == FrontendOutcome(rf)
           e == CollectBuild(b, f) IN
       /\ invokedTools' = invokedTools \cup {"mvn"} \cup
             (IF f = <<"ruoyi-ui not found", "package.json">> THEN {} ELSE {"npm"})
       /\ IF e # NoErr
            THEN /\ Raise(e[1], e[2])
                 /\ fault' = TRUE
            ELSE /\ pc' = "copy_assets"
                 /\ UNCHANGED <<exit_code, err, fault>>
  /\ steps' = steps \cup {"build_backend", "build_frontend"}
  /\ UNCHANGED nsTouched
  /\ UNCHANGED observed
  /\ UNCHANGED <<argVars, envVars, TOOL_BIN, missing, cluster, db, cmVars,
                 sqlVars, ignoredFail, waitVars, poolVars>>

\* _copy_assets, then main line 652: skip_build decides on the image build
CopyAssets ==
  /\ pc = "copy_assets"
  /\ \E jarsPresent \in BOOLEAN :
       IF jarsPresent
         THEN /\ pc' = IF skip_build THEN "load_images" ELSE "build_images"
              /\ UNCHANGED <<exit_code, err, fault>>
         ELSE /\ Raise("Missing jar build outputs", "jar")
              /\ fault' = TRUE
  /\ steps' = steps \cup {"copy_assets"}
  /\ UNCHANGED nsTouched
  /\ UNCHANGED observed
  /\ UNCHANGED <<argVars, envVars, TOOL_BIN, invokedTools, missing, cluster,
                 db, cmVars, sqlVars, ignoredFail, waitVars, poolVars>>

\* _build_images_parallel as one step of main: every docker build runs to its
\* end; the call returns if all succeeded and raises the failure of one of
\* the failed builds otherwise.
BuildImages ==
  /\ pc = "build_images"
  /\ \E failed \in {{}} \cup {{imgs[i]} : i \in 1..Len(imgs)} :
       IF failed = {}
         THEN /\ pc' = "load_images"
              /\ UNCHANGED <<exit_code, err, fault>>
         ELSE /\ \E i \in failed : Raise("Command failed", i)
              /\ fault' = TRUE
  /\ steps' = steps \cup {"build_images"}
  /\ invokedTools' = invokedTools \cup {"docker"}
  /\ UNCHANGED nsTouched
  /\ UNCHANGED observed
  /\ UNCHANGED <<argVars, envVars, TOOL_BIN, missing, cluster, db, cmVars,
                 sqlVars, ignoredFail, waitVars, poolVars>>

\* _minikube_load_parallel as one step of main
LoadImages ==
  /\ pc = "load_images"
  /\ \E failed \in {{}} \cup {{imgs[i]} : i \in 1..Len(imgs)} :
       IF failed = {}
         THEN /\ pc' = "cm_ns_render"
              /\ UNCHANGED <<exit_code, err, fault>>
         ELSE /\ \E i \in failed : Raise("Command failed", i)
              /\ fault' = TRUE
  /\ steps' = steps \cup {"load_images"}
  /\ invokedTools' = invokedTools \cup {"minikube"}
  /\ UNCHANGED nsTouched
  /\ UNCHANGED observed
  /\ UNCHANGED <<argVars, envVars, TOOL_BIN, missing, cluster, db, cmVars,
                 sqlVars, ignoredFail, waitVars, poolVars>>

\* ------------------------------------------------------ _apply_configmaps

\* line 280: kubectl create ns --dry-run=client -o yaml, check=False; the
\* namespace is applied only if the render printed something (line 281).
CmNsRender ==
  /\ pc = "cm_ns_render"
  /\ \E rc \in {0, 1}, printed \in BOOLEAN :
       /\ rc = 0 => printed
       /\ rendered' = IF printed THEN {NsObj} ELSE {}
       /\ pc' = IF printed THEN "cm_ns_apply" ELSE "cm_prepare"
       /\ ignoredFail' = (ignoredFail \/ rc # 0)
       /\ fault' = (fault \/ rc # 0)
  /\ applied' = {}
  /\ steps' = steps \cup {"apply_configmaps"}
  /\ invokedTools' = invokedTools \cup {"kubectl"}
  /\ UNCHANGED nsTouched
  /\ UNCHANGED observed
  /\ UNCHANGED <<argVars, envVars, TOOL_BIN, exit_code, err, missing, cluster,
                 db, sqlVars, waitVars, poolVars>>

\* (variant: the applies run with check=False)
ApplyCheckLoose == FALSE
\* lines 288, 319 and 342: the applies are run with check=True
ApplyCheck == TRUE

\* A kubectl apply -f - of a rendered payload (lines 282-289, 313-320,
\* 336-343).
ApplyPayload(obj, nextPc) ==
  \E rc \in {0, 1} :
    IF rc = 0 /\ ~ApplyRejects(obj) /\ ~NamespaceMissing(obj)
      THEN /\ cluster' = cluster \cup {obj}
           /\ applied' = applied \cup {obj}
           /\ pc' = nextPc
           /\ UNCHANGED <<exit_code, err, fault>>
      ELSE /\ fault' = (fault \/ rc # 0)
           /\ UNCHANGED <<cluster, applied>>
           /\ IF ApplyCheck
                THEN Raise("CalledProcessError", obj)
                ELSE /\ pc' = nextPc
                     /\ UNCHANGED <<exit_code, err>>

CmNsApply ==
  /\ pc = "cm_ns_apply"
  /\ ApplyPayload(NsObj, "cm_prepare")
  /\ nsTouched' = nsTouched \cup {namespace}
  /\ UNCHANGED observed
  /\ UNCHANGED <<argVars, envVars, TOOL_BIN, steps, invokedTools, missing, db,
                 rendered, sqlVars, ignoredFail, waitVars, poolVars>>

\* lines 291-298: the nacos properties file must exist; _write_patched_sql
\* raises when none of the two SQL files exists.
CmPrepare ==
  /\ pc = "cm_prepare"
  /\ \E nacosProps \in BOOLEAN, found \in SUBSET SqlFiles :
       IF ~nacosProps
         THEN /\ Raise("Missing nacos config file", "application.properties")
              /\ fault' = TRUE
         ELSE IF found = {}
           THEN /\ Raise("No SQL files found", "sql")
                /\ fault' = TRUE
           ELSE /\ pc' = "cm_mysql_render"
                /\ fault' = (fault \/ found # SqlFiles)
                /\ UNCHANGED <<exit_code, err>>
  /\ UNCHANGED nsTouched
  /\ UNCHANGED observed
  /\ UNCHANGED <<argVars, envVars, TOOL_BIN, steps, invokedTools, missing,
                 cluster, db, cmVars, sqlVars, ignoredFail, waitVars, poolVars>>

\* (variant: the renders run with check=False)
RenderCheckLoose == FALSE
\* lines 312 and 335: the configmap renders are run with check=True
RenderCheck == TRUE

\* A kubectl create configmap --dry-run=client -o yaml (lines 301-312,
\* 323-335).
RenderPayload(obj, nextPc) ==
  \E rc \in {0, 1} :
    /\ rendered' = IF rc = 0 THEN rendered \cup {obj} ELSE rendered
    /\ fault' = (fault \/ rc # 0)
    /\ IF rc # 0 /\ RenderCheck
         THEN Raise("Command failed", obj)
         ELSE /\ pc' = nextPc
              /\ UNCHANGED <<exit_code, err>>

CmMysqlRender ==
  /\ pc = "cm_mysql_render"
  /\ RenderPayload(CmMysql, "cm_mysql_apply")
  /\ UNCHANGED nsTouched
  /\ UNCHANGED observed
  /\ UNCHANGED <<argVars, envVars, TOOL_BIN, steps, invokedTools, missing,
                 cluster, db, applied, sqlVars, ignoredFail, waitVars, poolVars>>

CmMysqlApply ==
  /\ pc = "cm_mysql_apply"
  /\ ApplyPayload(CmMysql, "cm_nacos_render")
  /\ nsTouched' = nsTouched \cup {namespace}
  /\ UNCHANGED observed
  /\ UNCHANGED <<argVars, envVars, TOOL_BIN, steps, invokedTools, missing, db,
                 rendered, sqlVars, ignoredFail, waitVars, poolVars>>

CmNacosRender ==
  /\ pc = "cm_nacos_render"
  /\ RenderPayload(CmNacos, "cm_nacos_apply")
  /\ UNCHANGED nsTouched
  /\ UNCHANGED observed
  /\ UNCHANGED <<argVars, envVars, TOOL_BIN, steps, invokedTools, missing,
                 cluster, db, applied, sqlVars, ignoredFail, waitVars, poolVars>>

CmNacosApply ==
  /\ pc = "cm_nacos_apply"
  /\ ApplyPayload(CmNacos, "kubectl_apply")
  /\ nsTouched' = nsTouched \cup {namespace}
  /\ UNCHANGED observed
  /\ UNCHANGED <<argVars, envVars, TOOL_BIN, steps, invokedTools, missing, db,
                 rendered, sqlVars, ignoredFail, waitVars, poolVars>>

\* main, lines 638-640: the objects of k8s/all.yaml name their namespace
\* themselves; _kubectl_apply does not pass its ns argument to kubectl
ManifestNamespace == "ruoyi"

\* _kubectl_apply: kubectl apply -f k8s/all.yaml, check=True
KubectlApply ==
  /\ pc = "kubectl_apply"
  /\ \E rc \in {0, 1} :
       IF rc = 0
         THEN /\ cluster' = cluster \cup {Manifest}
              /\ pc' = "ensure_mysql"
              /\ UNCHANGED <<exit_code, err, fault>>
         ELSE /\ Raise("Command failed", Manifest)
              /\ fault' = TRUE
              /\ UNCHANGED cluster
  /\ steps' = steps \cup {"kubectl_apply"}
  /\ nsTouched' = nsTouched \cup {ManifestNamespace}
  /\ UNCHANGED observed
  /\ UNCHANGED <<argVars, envVars, TOOL_BIN, invokedTools, missing, db, cmVars,
                 sqlVars, ignoredFail, waitVars, poolVars>>

\* ---------------------------------------------------------- _wait_rollout

\* (variant: every target gets the whole timeout)
WaitLeftWhole(timeout_sec, spent) == timeout_sec
\* line 403: left = max(30, timeout_sec - int(time.time() - start))
WaitLeft(timeout_sec, spent) == Max(MinLeft, timeout_sec - spent)

\* line 401: start = time.time(), before the loop over the deployments
StartWait(list, timeout_sec, ret) ==
  /\ wlist' = list
  /\ wtimeout' = timeout_sec
  /\ widx' = 1
  /\ elapsed' = 0
  /\ left' = 0
  /\ wret' = ret
  /\ pc' = "wait_rollout"

\* lines 402-404, one iteration: kubectl rollout status --timeout=<left>s,
\* check=True.  The command ends within its timeout.  elapsed is the value
\* int(time.time() - start) that the next iteration reads; after a failure
\* the exception leaves the loop and the clock is not read again.
WaitTarget ==
  /\ pc = "wait_rollout"
  /\ widx <= Len(wlist)
  /\ LET l == WaitLeft(wtimeout, elapsed) IN
     /\ left' = l
     /\ \E ok \in BOOLEAN, d \in Durations :
          /\ d <= l
          /\ IF ok
               THEN /\ widx' = widx + 1
                    /\ elapsed' = elapsed + d
                    /\ UNCHANGED <<pc, exit_code, err, fault>>
               ELSE /\ Raise("Command failed", wlist[widx])
                    /\ fault' = TRUE
                    /\ UNCHANGED <<widx, elapsed>>
  /\ nsTouched' = nsTouched \cup {namespace}
  /\ UNCHANGED observed
  /\ UNCHANGED <<argVars, envVars, TOOL_BIN, steps, invokedTools, missing,
                 cluster, db, cmVars, sqlVars, ignoredFail, wlist, wtimeout,
                 wret, poolVars>>

\* the loop is over: _wait_rollout returns to its caller
WaitReturn ==
  /\ pc = "wait_rollout"
  /\ widx > Len(wlist)
  /\ pc' = wret
  /\ steps' = steps \cup (IF wret = "print_access" THEN {"wait_all_done"} ELSE {})
  /\ wlist' = <<>>
  /\ wtimeout' = 0
  /\ widx' = 0
  /\ elapsed' = 0
  /\ left' = 0
  /\ wret' = "none"
  /\ UNCHANGED nsTouched
  /\ observed' = observed \cup (IF wret = "mysql_pod" THEN {"mysql_ready"} ELSE {})
  /\ UNCHANGED <<argVars, envVars, TOOL_BIN, exit_code, err, invokedTools,
                 missing, cluster, db, cmVars, sqlVars, ignoredFail, fault,
                 poolVars>>

\* ----------------------------------------------- _ensure_mysql_initialized

PcCreateDb(f) == IF f = "ry_config_20250902.sql" THEN "mysql_createdb_cfg"
                                                 ELSE "mysql_createdb_cloud"
PcImport(f) == IF f = "ry_config_20250902.sql" THEN "mysql_import_cfg"
                                               ELSE "mysql_import_cloud"
PcQ1(t) == CASE t = "config_info" -> "q1_config_info"
             [] t = "sys_config" -> "q1_sys_config"
             [] t = "sys_job" -> "q1_sys_job"
PcRetry(t) == CASE t = "config_info" -> "retry_config_info"
                [] t = "sys_config" -> "retry_sys_config"
                [] t = "sys_job" -> "retry_sys_job"
PcQ2(t) == CASE t = "config_info" -> "q2_config_info"
             [] t = "sys_config" -> "q2_sys_config"
             [] t = "sys_job" -> "q2_sys_job"
\* where the function goes on once table t was found
AfterTable(t) == CASE t = "config_info" -> "mysql_createdb_cloud"
                   [] t = "sys_config" -> "q1_sys_job"
                   [] t = "sys_job" -> "mysql_recheck"
\* (variant: both first imports run with check=False)
ImportCheckedNever(f) == FALSE
\* the first import of ry_config_20250902.sql is check=True (line 517), the
\* first import of ry_20250523.sql is check=False (line 549)
ImportChecked(f) == f = "ry_config_20250902.sql"
FirstTableOf(f) == IF f = "ry_config_20250902.sql" THEN "config_info" ELSE "sys_config"

\* line 490: _wait_rollout(ns, ["ruoyi-mysql"], timeout_sec=600)
EnsureMysqlStart ==
  /\ pc = "ensure_mysql"
  /\ StartWait(<<"ruoyi-mysql">>, MysqlTimeout, "mysql_pod")
  /\ steps' = steps \cup {"ensure_mysql"}
  /\ UNCHANGED nsTouched
  /\ UNCHANGED observed
  /\ UNCHANGED <<argVars, envVars, TOOL_BIN, exit_code, err, invokedTools,
                 missing, cluster, db, cmVars, sqlVars, ignoredFail, fault,
                 poolVars>>

\* _get_single_pod_name (lines 492 and 472): check=True, empty name raises
GetSinglePodName ==
  /\ pc \in {"mysql_pod", "fix_pod"}
  /\ \E res \in {"name", "empty", "failed"} :
       IF res = "name"
         THEN /\ pc' = IF pc = "mysql_pod" THEN "mysql_dbcheck" ELSE "fix_update"
              /\ UNCHANGED <<exit_code, err, fault>>
         ELSE /\ Raise(IF res = "empty" THEN "No pod found" ELSE "Command failed",
                       "app=ruoyi-mysql")
              /\ fault' = TRUE
  /\ steps' = steps \cup (IF pc = "fix_pod" THEN {"fix_redis_host"} ELSE {})
  /\ nsTouched' = nsTouched \cup {namespace}
  /\ UNCHANGED observed
  /\ UNCHANGED <<argVars, envVars, TOOL_BIN, invokedTools, missing, cluster,
                 db, cmVars, sqlVars, ignoredFail, waitVars, poolVars>>

\* lines 497-500: SHOW DATABASES LIKE 'ry-config', check=False, result unused
MysqlDbCheck ==
  /\ pc = "mysql_dbcheck"
  /\ \E rc \in {0, 1} :
       /\ ignoredFail' = (ignoredFail \/ rc # 0)
       /\ fault' = (fault \/ rc # 0)
  /\ pc' = "mysql_ls"
  /\ nsTouched' = nsTouched \cup {namespace}
  /\ UNCHANGED observed
  /\ UNCHANGED <<argVars, envVars, TOOL_BIN, exit_code, err, steps,
                 invokedTools, missing, cluster, db, cmVars, sqlVars, waitVars,
                 poolVars>>

\* line 504: ls -la /docker-entrypoint-initdb.d, check=True
MysqlLs ==
  /\ pc = "mysql_ls"
  /\ \E rc \in {0, 1} :
       IF rc = 0
         THEN /\ pc' = "mysql_createdb_cfg"
              /\ UNCHANGED <<exit_code, err, fault>>
         ELSE /\ Raise("Command failed", "ls")
              /\ fault' = TRUE
  /\ nsTouched' = nsTouched \cup {namespace}
  /\ UNCHANGED observed
  /\ UNCHANGED <<argVars, envVars, TOOL_BIN, steps, invokedTools, missing,
                 cluster, db, cmVars, sqlVars, ignoredFail, waitVars, poolVars>>

\* lines 507-512 and 539-544: CREATE DATABASE IF NOT EXISTS, check=True
MysqlCreateDb(f) ==
  /\ pc = PcCreateDb(f)
  /\ \E rc \in {0, 1} :
       IF rc = 0
         THEN /\ pc' = PcImport(f)
              /\ UNCHANGED <<exit_code, err, fault>>
         ELSE /\ Raise("Command failed", "create database")
              /\ fault' = TRUE
  /\ nsTouched' = nsTouched \cup {namespace}
  /\ UNCHANGED observed
  /\ UNCHANGED <<argVars, envVars, TOOL_BIN, steps, invokedTools, missing,
                 cluster, db, cmVars, sqlVars, ignoredFail, waitVars, poolVars>>

\* What an import of file f leaves in the database: the tables of the other
\* file are untouched, and any part of f's tables may be there afterwards.
Imported(f, made) == (db \ FileTables(f)) \cup made

\* lines 513-518 and 545-550: the first import of a schema file
MysqlImport(f) ==
  /\ pc = PcImport(f)
  /\ \E rc \in {0, 1}, made \in SUBSET FileTables(f) :
       /\ db' = Imported(f, made)
       /\ fault' = (fault \/ rc # 0 \/ made # FileTables(f))
       /\ IF rc # 0 /\ ImportChecked(f)
            THEN /\ Raise("Command failed", f)
                 /\ impRc' = [impRc EXCEPT ![f] = "fail"]
                 /\ UNCHANGED ignoredFail
            ELSE /\ impRc' = [impRc EXCEPT ![f] = IF rc = 0 THEN "ok" ELSE "fail"]
                 /\ pc' = PcQ1(FirstTableOf(f))
                 /\ UNCHANGED <<exit_code, err, ignoredFail>>
  /\ nsTouched' = nsTouched \cup {namespace}
  /\ UNCHANGED observed
  /\ UNCHANGED <<argVars, envVars, TOOL_BIN, steps, invokedTools, missing,
                 cluster, cmVars, q1, q2, retries, waitVars, poolVars>>

\* A SHOW TABLES LIKE '<t>' with check=False: the stripped output is compared
\* with the table name; a failed query prints nothing.
QueryOutputs(t) == IF t \in db THEN {"present", "absent"} ELSE {"absent"}
\* (variant: the retry made whatever the query printed)
NeedsRetryAlways(out) == TRUE
\* lines 525, 559, 578: if cfg != "config_info": retry the import
NeedsRetry(out) == out # "present"

\* lines 521-525, 555-559, 574-578: first query for table t
MysqlQuery1(t) ==
  /\ pc = PcQ1(t)
  /\ \E out \in QueryOutputs(t) :
       /\ q1' = [q1 EXCEPT ![t] = out]
       /\ pc' = IF NeedsRetry(out) THEN PcRetry(t) ELSE AfterTable(t)
       /\ fault' = (fault \/ out = "absent")
       /\ observed' = observed \cup (IF out = "present" THEN {t} ELSE {})
  /\ nsTouched' = nsTouched \cup {namespace}
  /\ UNCHANGED <<argVars, envVars, TOOL_BIN, exit_code, err, steps,
                 invokedTools, missing, cluster, db, cmVars, q2, impRc,
                 retries, ignoredFail, waitVars, poolVars>>

\* lines 526-532, 560-566, 579-584: the retry import for table t, check=False
MysqlRetryImport(t) ==
  /\ pc = PcRetry(t)
  /\ \E rc \in {0, 1}, made \in SUBSET FileTables(FileOf(t)) :
       /\ db' = Imported(FileOf(t), made)
       /\ retries' = [retries EXCEPT ![t] = @ + 1]
       /\ fault' = (fault \/ rc # 0 \/ made # FileTables(FileOf(t)))
  /\ pc' = PcQ2(t)
  /\ nsTouched' = nsTouched \cup {namespace}
  /\ UNCHANGED observed
  /\ UNCHANGED <<argVars, envVars, TOOL_BIN, exit_code, err, steps,
                 invokedTools, missing, cluster, cmVars, q1, q2, impRc,
                 ignoredFail, waitVars, poolVars>>

\* lines 533-537, 567-571, 585-589: second query for table t
MysqlQuery2(t) ==
  /\ pc = PcQ2(t)
  /\ \E out \in QueryOutputs(t) :
       /\ q2' = [q2 EXCEPT ![t] = out]
       /\ IF out = "present"
            THEN /\ pc' = AfterTable(t)
                 /\ UNCHANGED <<exit_code, err>>
            ELSE Raise("MySQL init incomplete", t)
       /\ observed' = observed \cup (IF out = "present" THEN {t} ELSE {})
  /\ nsTouched' = nsTouched \cup {namespace}
  /\ UNCHANGED <<argVars, envVars, TOOL_BIN, steps, invokedTools, missing,
                 cluster, db, cmVars, q1, impRc, retries, ignoredFail,
                 waitVars, fault, poolVars>>

\* lines 591-596: the database ry-config is looked up again; then the
\* function returns and its locals are gone
MysqlRecheck ==
  /\ pc = "mysql_recheck"
  /\ \E found \in BOOLEAN :
       /\ observed' = observed \cup (IF found THEN {"ry-config"} ELSE {})
       /\ IF found
            THEN /\ pc' = "fix_pod"
                 /\ q1' = NoneQ
                 /\ q2' = NoneQ
                 /\ impRc' = NoneF
                 /\ retries' = NoRetries
                 /\ UNCHANGED <<exit_code, err, fault>>
            ELSE /\ Raise("MySQL init failed", "ry-config")
                 /\ fault' = TRUE
                 /\ UNCHANGED sqlVars
  /\ nsTouched' = nsTouched \cup {namespace}
  /\ UNCHANGED <<argVars, envVars, TOOL_BIN, steps, invokedTools, missing,
                 cluster, db, cmVars, ignoredFail, waitVars, poolVars>>

\* (variant: the UPDATE run with check=False)
UpdateCheckLoose == FALSE
\* _fix_ry_config_redis_host, line 484: the UPDATE is run with check=True
UpdateCheck == TRUE

\* _fix_ry_config_redis_host, lines 476-485: the UPDATE on config_info
FixUpdate ==
  /\ pc = "fix_update"
  /\ \E rc \in {0, 1} :
       /\ observed' = observed \cup (IF rc = 0 THEN {"update"} ELSE {})
       /\ fault' = (fault \/ rc # 0)
       /\ IF rc # 0 /\ UpdateCheck
            THEN Raise("Command failed", "UPDATE config_info")
            ELSE /\ pc' = "restart"
                 /\ UNCHANGED <<exit_code, err>>
  /\ nsTouched' = nsTouched \cup {namespace}
  /\ UNCHANGED <<argVars, envVars, TOOL_BIN, steps, invokedTools, missing,
                 cluster, db, cmVars, sqlVars, ignoredFail, waitVars, poolVars>>

\* _restart_and_wait(ns, "ruoyi-nacos", 900): rollout restart, check=True,
\* then _wait_rollout on the one deployment
RestartAndWait ==
  /\ pc = "restart"
  /\ \E rc \in {0, 1} :
       IF rc = 0
         THEN /\ StartWait(<<"ruoyi-nacos">>, NacosTimeout, "final_wait")
              /\ UNCHANGED <<exit_code, err, fault>>
         ELSE /\ Raise("Command failed", "rollout restart")
              /\ fault' = TRUE
              /\ UNCHANGED waitVars
  /\ steps' = steps \cup {"restart_nacos"}
  /\ nsTouched' = nsTouched \cup {namespace}
  /\ UNCHANGED observed
  /\ UNCHANGED <<argVars, envVars, TOOL_BIN, invokedTools, missing, cluster,
                 db, cmVars, sqlVars, ignoredFail, poolVars>>

\* main, lines 692-705: _wait_rollout over the eleven deployments
FinalWait ==
  /\ pc = "final_wait"
  /\ StartWait(deployments, FinalTimeout, "print_access")
  /\ steps' = steps \cup {"wait_all"}
  /\ UNCHANGED nsTouched
  /\ UNCHANGED observed
  /\ UNCHANGED <<argVars, envVars, TOOL_BIN, exit_code, err, invokedTools,
                 missing, cluster, db, cmVars, sqlVars, ignoredFail, fault,
                 poolVars>>

\* main, lines 706-707: _print_access is check=False, then return 0
PrintAccess ==
  /\ pc = "print_access"
  /\ \E rc \in {0, 1} :
       /\ ignoredFail' = (ignoredFail \/ rc # 0)
       /\ fault' = (fault \/ rc # 0)
  /\ steps' = steps \cup {"print_access"}
  /\ invokedTools' = invokedTools \cup {"minikube"}
  /\ exit_code' = 0
  /\ pc' = "done"
  /\ nsTouched' = nsTouched \cup {namespace}
  /\ UNCHANGED observed
  /\ UNCHANGED <<argVars, envVars, TOOL_BIN, err, missing, cluster, db, cmVars,
                 sqlVars, waitVars, poolVars>>

\* After a run that returned 0 the script is started again with the same
\* arguments on the same cluster.
Rerun ==
  /\ pc = "done"
  /\ exit_code = 0
  /\ run < MaxRuns
  /\ run' = run + 1
  /\ prev' = [ok |-> exit_code = 0, cluster |-> cluster]
  /\ TOOL_BIN' = {}
  /\ pc' = "ensure_tools"
  /\ exit_code' = -1
  /\ err' = NoErr
  /\ steps' = {}
  /\ invokedTools' = {}
  /\ missing' = <<>>
  /\ rendered' = {}
  /\ applied' = {}
  /\ q1' = NoneQ
  /\ q2' = NoneQ
  /\ impRc' = NoneF
  /\ retries' = NoRetries
  /\ ignoredFail' = FALSE
  /\ fault' = FALSE
  /\ wlist' = <<>>
  /\ wtimeout' = 0
  /\ widx' = 0
  /\ elapsed' = 0
  /\ left' = 0
  /\ wret' = "none"
  /\ nsTouched' = {}
  /\ observed' = {}
  /\ UNCHANGED <<argVars, PATH, cluster, db, poolVars>>

PathChoices == {Tools \ m : m \in {x \in SUBSET Tools : Cardinality(x) <= MaxMissing}}

PoolIdle ==
  /\ pool = "none"
  /\ status = <<>>
  /\ mainPc = "idle"
  /\ propagated = 0
  /\ firstFail = 0
  /\ snapFailed = {}
  /\ pendingFail = 0

Init ==
  /\ run = 1
  /\ skip_build \in BOOLEAN
  /\ only_apply \in BOOLEAN
  /\ cleanup \in BOOLEAN
  /\ namespace \in Namespaces
  /\ PATH \in PathChoices
  /\ TOOL_BIN = {}
  /\ pc = "ensure_tools"
  /\ exit_code = -1
  /\ err = NoErr
  /\ steps = {}
  /\ invokedTools = {}
  /\ missing = <<>>
  /\ cluster \in {{}, AllObjs}
  /\ db = IF cluster = {} THEN {} ELSE TableSet
  /\ rendered = {}
  /\ applied = {}
  /\ q1 = NoneQ
  /\ q2 = NoneQ
  /\ impRc = NoneF
  /\ retries = NoRetries
  /\ ignoredFail = FALSE
  /\ wlist = <<>>
  /\ wtimeout = 0
  /\ widx = 0
  /\ elapsed = 0
  /\ left = 0
  /\ wret = "none"
  /\ fault = FALSE
  /\ prev = [ok |-> FALSE, cluster |-> {}]
  /\ nsTouched = {}
  /\ observed = {}
  /\ PoolIdle

Next ==
  \/ EnsureTools
  \/ EnsureBaseImages
  \/ PullBaseImage
  \/ Cleanup
  \/ Preflight
  \/ BuildFanout
  \/ CopyAssets
  \/ BuildImages
  \/ LoadImages
  \/ CmNsRender
  \/ CmNsApply
  \/ CmPrepare
  \/ CmMysqlRender
  \/ CmMysqlApply
  \/ CmNacosRender
  \/ CmNacosApply
  \/ KubectlApply
  \/ EnsureMysqlStart
  \/ GetSinglePodName
  \/ MysqlDbCheck
  \/ MysqlLs
  \/ \E f \in SqlFiles : MysqlCreateDb(f)
  \/ \E f \in SqlFiles : MysqlImport(f)
  \/ \E t \in TableSet : MysqlQuery1(t)
  \/ \E t \in TableSet : MysqlRetryImport(t)
  \/ \E t \in TableSet : MysqlQuery2(t)
  \/ MysqlRecheck
  \/ FixUpdate
  \/ RestartAndWait
  \/ FinalWait
  \/ WaitTarget
  \/ WaitReturn
  \/ PrintAccess
  \/ Rerun

Spec == Init /\ [][Next]_vars

\* ------------------------------------------------------------ worker pools
\* The three fan-outs at the grain of their threads: main lines 644-648
\* ("build": task 1 is _build_backend_jars, task 2 is _build_frontend_dist),
\* _build_images_parallel lines 380-383 ("image_build") and
\* _minikube_load_parallel lines 390-393 ("image_load"), one task per image.

Pools == {"build", "image_build", "image_load"}
PoolTasks(p) == IF p = "build" THEN 2 ELSE Len(imgs)
\* ThreadPoolExecutor(max_workers=2) / (max_workers=min(6, len(images)))
PoolWorkers(p) == IF p = "build" THEN BuildPoolWorkers ELSE Min(MaxPoolWorkers, Len(imgs))

Finished(t) == status[t] \in {"ok", "failed"}
FailedTasks == {t \in DOMAIN status : status[t] = "failed"}
RunningTasks == {t \in DOMAIN status : status[t] = "running"}

\* ex.submit(...): the next task is handed to the executor
PoolSubmit ==
  /\ mainPc = "submit"
  /\ LET i == CHOOSE t \in DOMAIN status :
                /\ status[t] = "unsubmitted"
                /\ \A u \in DOMAIN status : u < t => status[u] # "unsubmitted" IN
     /\ status' = [status EXCEPT ![i] = "queued"]
     /\ mainPc' = IF i < PoolTasks(pool) THEN "submit"
                  ELSE IF pool = "build" THEN "result1" ELSE "as_completed"
  /\ UNCHANGED <<pool, propagated, firstFail, snapFailed, pendingFail, mainVars>>

\* a free worker takes the oldest queued task
PoolStart ==
  /\ \E t \in DOMAIN status :
       /\ status[t] = "queued"
       /\ \A u \in DOMAIN status : u < t => status[u] # "queued"
       /\ Cardinality(RunningTasks) < PoolWorkers(pool)
       /\ status' = [status EXCEPT ![t] = "running"]
  /\ UNCHANGED <<pool, mainPc, propagated, firstFail, snapFailed, pendingFail,
                 mainVars>>

\* a running task returns or raises; its future is set
PoolFinish ==
  /\ \E t \in RunningTasks, ok \in BOOLEAN :
       /\ status' = [status EXCEPT ![t] = IF ok THEN "ok" ELSE "failed"]
       /\ firstFail' = IF ~ok /\ firstFail = 0 THEN t ELSE firstFail
       /\ pendingFail' = IF ~ok /\ mainPc = "iterate" /\ pendingFail = 0
                           THEN t ELSE pendingFail
  /\ UNCHANGED <<pool, mainPc, propagated, snapFailed, mainVars>>

\* (variant: the frontend's result collected first)
ResultOrderSwapped == <<2, 1>>
\* main lines 647-648: fut_backend.result(), then fut_frontend.result()
ResultOrder == <<1, 2>>
PoolResult ==
  /\ mainPc \in {"result1", "result2"}
  /\ LET t == ResultOrder[IF mainPc = "result1" THEN 1 ELSE 2] IN
     /\ Finished(t)
     /\ IF status[t] = "failed"
          THEN /\ propagated' = t
               /\ mainPc' = "exit"
          ELSE /\ mainPc' = IF mainPc = "result1" THEN "result2" ELSE "exit"
               /\ UNCHANGED propagated
  /\ UNCHANGED <<pool, status, firstFail, snapFailed, pendingFail, mainVars>>

\* lines 382 and 392, entering the loop: as_completed first yields, in no
\* specified order, the futures that are already finished; f.result() raises
\* on the first failed one.
PoolAsCompleted ==
  /\ mainPc = "as_completed"
  /\ snapFailed' = FailedTasks
  /\ IF FailedTasks # {}
       THEN /\ \E t \in FailedTasks : propagated' = t
            /\ mainPc' = "exit"
       ELSE /\ mainPc' = "iterate"
            /\ UNCHANGED propagated
  /\ UNCHANGED <<pool, status, firstFail, pendingFail, mainVars>>

\* lines 382-383 and 392-393: after that, futures are yielded in the order
\* they finish; the loop ends when the first failed one is reached or when
\* every future was yielded.
PoolIterate ==
  /\ mainPc = "iterate"
  /\ \/ /\ pendingFail # 0
        /\ propagated' = pendingFail
     \/ /\ pendingFail = 0
        /\ \A t \in DOMAIN status : status[t] = "ok"
        /\ UNCHANGED propagated
  /\ mainPc' = "exit"
  /\ UNCHANGED <<pool, status, firstFail, snapFailed, pendingFail, mainVars>>

\* (variant: shutdown(wait=False))
JoinedNone == TRUE
\* leaving the with block: ThreadPoolExecutor.__exit__ is shutdown(wait=True),
\* which lets the queued tasks run and joins the workers
JoinedAll == \A t \in DOMAIN status : Finished(t)

\* the with block is left: the exception, if any, goes on to the caller of
\* the fan-out, otherwise the following step starts
PoolExit ==
  /\ mainPc = "exit"
  /\ JoinedAll
  /\ mainPc' = IF propagated = 0 THEN "next" ELSE "aborted"
  /\ UNCHANGED <<pool, status, propagated, firstFail, snapFailed, pendingFail,
                 mainVars>>

InitPool ==
  /\ pool \in Pools
  /\ status = [t \in 1..PoolTasks(pool) |-> "unsubmitted"]
  /\ mainPc = "submit"
  /\ propagated = 0
  /\ firstFail = 0
  /\ snapFailed = {}
  /\ pendingFail = 0
  /\ run = 1
  /\ skip_build = FALSE
  /\ only_apply = FALSE
  /\ cleanup = FALSE
  /\ namespace = "ruoyi"
  /\ PATH = Tools
  /\ TOOL_BIN = Tools
  /\ pc = "fan_out"
  /\ exit_code = -1
  /\ err = NoErr
  /\ steps = {}
  /\ invokedTools = {}
  /\ missing = <<>>
  /\ cluster = {}
  /\ db = {}
  /\ rendered = {}
  /\ applied = {}
  /\ q1 = NoneQ
  /\ q2 = NoneQ
  /\ impRc = NoneF
  /\ retries = NoRetries
  /\ ignoredFail = FALSE
  /\ wlist = <<>>
  /\ wtimeout = 0
  /\ widx = 0
  /\ elapsed = 0
  /\ left = 0
  /\ wret = "none"
  /\ fault = FALSE
  /\ prev = [ok |-> FALSE, cluster |-> {}]
  /\ nsTouched = {}
  /\ observed = {}

NextPool ==
  \/ PoolSubmit
  \/ PoolStart
  \/ PoolFinish
  \/ PoolResult
  \/ PoolAsCompleted
  \/ PoolIterate
  \/ PoolExit

SpecPool == InitPool /\ [][NextPool]_vars

\* ================================================================= claims

BuildSteps == {"build_backend", "build_frontend", "copy_assets",
               "build_images", "load_images"}
EarlyErrors == {"Missing required tool in PATH", "Tool path does not exist",
                "Failed to pull required base image"}

\* C1 (as stated): a run with --cleanup always issues the delete and returns
\* 0; no earlier step can make it fail.
C1_Original ==
  (cleanup /\ pc = "done") => (exit_code = 0 /\ "cleanup" \in steps)

\* C1 (amended): a run with --cleanup does nothing but tool resolution, the
\* base-image check and the delete.  Once tool resolution and the base-image
\* step are passed, the delete is issued and the run returns 0 whatever the
\* delete returned; a failing tool resolution or base-image pull ends the run
\* with an error and without the delete.
C1_CleanupOutcome ==
  cleanup =>
    /\ pc \in {"ensure_tools", "base_images", "pull", "after_base", "done"}
    /\ steps \subseteq {"ensure_tools", "base_images", "cleanup"}
    /\ pc = "done" =>
         \/ exit_code = 0 /\ "cleanup" \in steps /\ err = NoErr
         \/ exit_code = 1 /\ "cleanup" \notin steps /\ err[1] \in EarlyErrors

\* C1 witness: the delete returned non-zero and the cleanup run returned 0
C1_Witness ==
  cleanup /\ pc = "done" /\ exit_code = 0 /\ ignoredFail /\ "cleanup" \in steps

\* C2 (as stated): no run starts a tool that tool resolution did not resolve,
\* and a missing tool never shows up later than tool resolution.
C2_Claim ==
  /\ invokedTools \subseteq TOOL_BIN
  /\ err[1] # "FileNotFoundError"

LaterTables(t) == CASE t = "config_info" -> {"sys_config", "sys_job"}
                    [] t = "sys_config" -> {"sys_job"}
                    [] t = "sys_job" -> {}

\* C4: for each checked table: the retry import is made only after a first
\* query that did not find the table, and at most once; after it the table is
\* queried again; a second absence aborts with 'MySQL init incomplete' and no
\* later table is queried or imported; a presence lets the run go on.
C4_TwoStrike ==
  \A t \in TableSet :
    /\ retries[t] <= 1
    /\ retries[t] = 1 => q1[t] = "absent"
    /\ q1[t] = "present" => (retries[t] = 0 /\ q2[t] = "none")
    /\ (q1[t] = "absent" /\ pc # PcRetry(t)) => retries[t] = 1
    /\ q2[t] # "none" => retries[t] = 1
    /\ q2[t] = "absent" =>
         /\ pc = "done" /\ exit_code = 1
         /\ err = <<"MySQL init incomplete", t>>
         /\ \A u \in LaterTables(t) : q1[u] = "none" /\ retries[u] = 0
         /\ t = "config_info" => impRc["ry_20250523.sql"] = "none"
    /\ q2[t] = "present" => err # <<"MySQL init incomplete", t>>

\* C4 witness: sys_job was absent, its import was retried once, the second
\* query found it and the function went on to its last check
C4_Witness ==
  /\ pc = "mysql_recheck"
  /\ q1["sys_job"] = "absent" /\ retries["sys_job"] = 1
  /\ q2["sys_job"] = "present"

\* number of import commands issued so far for schema file f
ImportsOf(f) ==
  (IF impRc[f] = "none" THEN 0 ELSE 1)
  + (IF f = "ry_config_20250902.sql"
       THEN retries["config_info"]
       ELSE retries["sys_config"] + retries["sys_job"])

\* C5 (as stated): when the run has ended, a schema file whose import failed
\* was imported exactly once more, and no command other than an import failed
\* without aborting the run.
C5_Original ==
  /\ \A f \in SqlFiles : (pc = "done" /\ impRc[f] = "fail") => ImportsOf(f) = 2
  /\ ~ignoredFail

\* C5 (amended): a failed first import of ry_config_20250902.sql aborts the
\* run at once, with no retry; a failed first import of ry_20250523.sql never
\* aborts the run; retry imports are made only for a table that a query did
\* not find, at most once per table, so a file is imported at most once plus
\* once per table of it.
C5_ImportRetry ==
  /\ impRc["ry_config_20250902.sql"] = "fail" =>
       /\ pc = "done" /\ exit_code = 1
       /\ err = <<"Command failed", "ry_config_20250902.sql">>
       /\ ImportsOf("ry_config_20250902.sql") = 1
  /\ err # <<"Command failed", "ry_20250523.sql">>
  /\ \A t \in TableSet : retries[t] <= 1 /\ (retries[t] = 1 => q1[t] = "absent")
  /\ \A f \in SqlFiles : ImportsOf(f) <= 1 + Cardinality(FileTables(f))

\* C5 witness: the import of ry_20250523.sql failed, sys_config was found all
\* the same, and the run went on without a retry
C5_Witness ==
  /\ pc = "q1_sys_job"
  /\ impRc["ry_20250523.sql"] = "fail"
  /\ retries["sys_config"] = 0

\* C6: a second run of the full flow after a successful first one, on the
\* same cluster and with the same arguments: it never removes an object, it
\* fails only if the environment makes something fail, and when it returns 0
\* the cluster holds the same objects as after the first run.
C6_Idempotent ==
  (run >= 2 /\ ~cleanup) =>
    /\ prev.ok
    /\ prev.cluster \subseteq cluster
    /\ (pc = "done" /\ ~fault) => exit_code = 0
    /\ (pc = "done" /\ exit_code = 0) => cluster = prev.cluster

\* C6 witness: the second run returned 0 and left the objects of the first
C6_Witness ==
  /\ run = 2 /\ ~cleanup /\ pc = "done" /\ exit_code = 0 /\ ~fault
  /\ cluster = AllObjs /\ prev.cluster = AllObjs

\* C7 (as stated): within _apply_configmaps nothing is applied before the
\* three payloads are rendered.
C7_Original ==
  applied # {} => rendered = ProvisionObjs

\* C7 (amended): an object is applied only after its own render succeeded,
\* and only objects applied by the step are added by it.
C7_RenderBeforeApply ==
  /\ applied \subseteq rendered
  /\ applied \subseteq cluster
  /\ rendered \subseteq ProvisionObjs
  /\ CmNacos \in rendered => CmMysql \in applied

\* C7 witness: preparing a later payload failed after the namespace had
\* already been applied
C7_Witness ==
  /\ pc = "done" /\ exit_code = 1
  /\ err[1] = "Missing nacos config file"
  /\ applied = {NsObj}

\* C8 (as stated): the time consumed over the list stays within timeout_sec.
C8_Original ==
  pc = "wait_rollout" => elapsed <= wtimeout

\* C8 (amended): each timeout is max(30, timeout_sec - time spent so far); the
\* timeouts never increase along the list and never fall below 30; after k
\* targets the time consumed is at most timeout_sec + 30 * (k - 1).
C8_Budget ==
  /\ [](pc = "wait_rollout" =>
          /\ (left # 0 => (left >= MinLeft /\ left <= wtimeout))
          /\ (widx = 1 => elapsed = 0)
          /\ (widx > 1 => elapsed <= wtimeout + MinLeft * (widx - 2)))
  /\ [][(pc = "wait_rollout" /\ pc' = "wait_rollout" /\ widx' = widx + 1) =>
          /\ left' = Max(MinLeft, wtimeout - elapsed)
          /\ (left # 0 => left' <= left)
          /\ elapsed' <= elapsed + left']_vars

\* C8 witness: the whole list was waited for and more than timeout_sec was
\* consumed
C8_Witness ==
  /\ pc = "wait_rollout" /\ widx > Len(wlist)
  /\ elapsed > wtimeout /\ left = MinLeft

\* C9: the step after a fan-out starts only when every task has finished and
\* succeeded; when a task failed the fan-out raises, never starts the next
\* step, and raises only after every submitted task has finished.
C9_Join ==
  /\ mainPc = "next" => \A t \in DOMAIN status : status[t] = "ok"
  /\ mainPc \in {"next", "aborted"} =>
       \A t \in DOMAIN status : status[t] \in {"ok", "failed"}
  /\ mainPc = "aborted" => (propagated # 0 /\ status[propagated] = "failed")
  /\ (\E t \in DOMAIN status : status[t] = "failed") => mainPc # "next"

\* C9 witness: an image load failed, the fan-out raised, and the task
\* submitted last still ran to its end
C9_Witness ==
  /\ pool = "image_load" /\ mainPc = "aborted"
  /\ propagated = 1 /\ status[Len(imgs)] = "ok"

\* C10 (as stated): the propagated failure is the one that happened first.
C10_Original ==
  mainPc = "aborted" => propagated = firstFail

\* C10 (amended): the propagated failure is that of a failed task; in the
\* build pool it is the backend's whenever the backend failed; in the image
\* pools it is the first failure in time unless several tasks had already
\* failed when as_completed began.
C10_Propagated ==
  mainPc = "aborted" =>
    /\ propagated # 0 /\ status[propagated] = "failed"
    /\ pool = "build" => propagated = (IF status[1] = "failed" THEN 1 ELSE 2)
    /\ (pool # "build" /\ propagated # firstFail) =>
         {propagated, firstFail} \subseteq snapFailed

\* C10 witness: the frontend failed first, the backend later, and the
\* backend's failure was propagated
C10_Witness ==
  /\ pool = "build" /\ mainPc = "aborted"
  /\ firstFail = 2 /\ propagated = 1

\* C11 (as stated): every cluster command of a run is issued on namespace
\* ruoyi, and a run given another namespace issues no cluster command and
\* enters no build step.
C11_Claim ==
  /\ nsTouched \subseteq {"ruoyi"}
  /\ namespace # "ruoyi" => (nsTouched = {} /\ steps \cap BuildSteps = {})

\* C12 (as stated): a run with --skip-build or --only-apply never starts mvn
\* or npm; a run enters the backend or frontend build only if _ensure_tools
\* resolved mvn, node and npm, and a full run that resolved them and returned
\* 0 has made both builds.
C12_Claim ==
  /\ (skip_build \/ only_apply) => invokedTools \cap {"mvn", "npm"} = {}
  /\ steps \cap {"build_backend", "build_frontend"} # {} =>
       Range(BuildTools) \subseteq TOOL_BIN
  /\ (pc = "done" /\ exit_code = 0 /\ ~cleanup
        /\ Range(BuildTools) \subseteq TOOL_BIN) =>
       {"build_backend", "build_frontend"} \subseteq steps

CmPcs == {"cm_ns_render", "cm_ns_apply", "cm_prepare", "cm_mysql_render",
          "cm_mysql_apply", "cm_nacos_render", "cm_nacos_apply"}

\* C13: the manifest apply is issued only after this run applied both
\* configmaps, and they are then in the cluster; the objects of the manifest
\* come into the cluster only by that apply; a step of _apply_configmaps adds
\* nothing but the namespace and the two configmaps; a run with --cleanup
\* applies nothing.
C13_ManifestAfterConfigmaps ==
  /\ []("kubectl_apply" \in steps =>
          /\ ~cleanup
          /\ {CmMysql, CmNacos} \subseteq applied
          /\ {CmMysql, CmNacos} \subseteq cluster)
  /\ [](cleanup => applied = {})
  /\ [][/\ (Manifest \notin cluster /\ Manifest \in cluster') =>
             /\ pc = "kubectl_apply"
             /\ {CmMysql, CmNacos} \subseteq applied
             /\ {CmMysql, CmNacos} \subseteq cluster
        /\ pc \in CmPcs =>
             /\ cluster' \ cluster \subseteq ProvisionObjs
             /\ cluster \subseteq cluster']_vars

\* C13 witness: the first run has applied the namespace and both configmaps
\* and then the manifest, and goes on to the mysql initialisation
C13_Witness ==
  /\ run = 1 /\ ~cleanup /\ pc = "ensure_mysql"
  /\ applied = ProvisionObjs /\ "kubectl_apply" \in steps
  /\ cluster = AllObjs

\* the run is at or past the restart of ruoyi-nacos
PastRestart ==
  \/ pc \in {"restart", "final_wait", "print_access"}
  \/ steps \cap {"restart_nacos", "wait_all", "wait_all_done", "print_access"} # {}

\* C14 (as stated): in every run the restart of ruoyi-nacos, the final wait
\* and the exit code 0 come only after all the observations were made.
C14_Original ==
  (PastRestart \/ (pc = "done" /\ exit_code = 0)) => observed = Observations

\* C14 (amended): in every run without --cleanup the restart of ruoyi-nacos,
\* the final wait and the exit code 0 come only after the mysql rollout was
\* reported ready, each of the three tables was found by its first or its
\* second query, the re-check found ry-config, and the UPDATE succeeded; a run
\* that ended without all of them has not restarted ruoyi-nacos and has not
\* returned 0.  A run with --cleanup makes no observation and no restart.
C14_RestartGuard ==
  /\ (PastRestart \/ (pc = "done" /\ exit_code = 0 /\ ~cleanup)) =>
       observed = Observations
  /\ (pc = "done" /\ ~cleanup /\ observed # Observations) =>
       /\ exit_code = 1
       /\ "restart_nacos" \notin steps
  /\ cleanup => (observed = {} /\ ~PastRestart)
  /\ observed \subseteq Observations

\* C14 witness: a run that made every observation, restarted ruoyi-nacos and
\* returned 0
C14_Witness ==
  /\ ~cleanup /\ pc = "done" /\ exit_code = 0
  /\ "restart_nacos" \in steps /\ observed = Observations
====
